---- MODULE Spec2Model ----
(***************************************************************************)
(* Model of skill-doctor's validation engine: the result/error model       *)
(* (models.py), the frontmatter parser, the field validators and the       *)
(* validate_skill orchestrator (validator.py).                             *)
(*                                                                         *)
(* Python strings are sequences of characters; a character is a one-token  *)
(* TLA+ string.  Characters outside ASCII carry a name: "NBSP" is U+00A0,  *)
(* "FW_A" is U+FF41 (fullwidth small a), "LIG_FI" is U+FB01 (the ligature  *)
(* fi).  Python values of the decoded frontmatter are tagged records       *)
(* [type, val].                                                            *)
(***************************************************************************)
EXTENDS Integers, Sequences, FiniteSets, TLC

VARIABLES pc, input, parsed, result, calls

vars == <<pc, input, parsed, result, calls>>

(***************************************************************************)
(* Program constants (validator.py 12-23).                                 *)
(***************************************************************************)
MAX_SKILL_NAME_LENGTH == 64
MAX_DESCRIPTION_LENGTH == 1024
MAX_COMPATIBILITY_LENGTH == 500

ALLOWED_FIELDS ==
    {"name", "description", "license", "allowed-tools", "metadata", "compatibility"}

(***************************************************************************)
(* Bounds of the model.                                                    *)
(***************************************************************************)
\* longest name enumerated exhaustively over NameChars
MaxNameLen == 3
\* longest description enumerated exhaustively over DescChars
MaxDescLen == 3
\* long strings are taken with raw lengths within Slack of each limit
Slack == 1

(***************************************************************************)
(* Characters and the str methods the validators use.                      *)
(***************************************************************************)
\* str.isspace of one character
IsSpace(c) == c \in {" ", "\t", "\n", "NBSP"}

\* c.isalnum()
IsAlnum(c) == c \in {"a", "b", "f", "i", "x", "A", "1", "FW_A", "LIG_FI"}

\* str.lower of one character
LowerChar(c) == IF c = "A" THEN "a" ELSE c

\* unicodedata.normalize("NFKC", c) of one character: compatibility
\* characters fold to their ASCII form, possibly to several characters
NFKCChar(c) ==
    CASE c = "FW_A" -> <<"a">>
      [] c = "LIG_FI" -> <<"f", "i">>
      [] c = "NBSP" -> <<" ">>
      [] OTHER -> <<c>>

RECURSIVE NFKC(_)
NFKC(s) == IF s = <<>> THEN <<>> ELSE NFKCChar(Head(s)) \o NFKC(Tail(s))

Lower(s) == [i \in 1..Len(s) |-> LowerChar(s[i])]

RECURSIVE LStrip(_)
LStrip(s) == IF s # <<>> /\ IsSpace(Head(s)) THEN LStrip(Tail(s)) ELSE s

RECURSIVE RStrip(_)
RStrip(s) ==
    IF s # <<>> /\ IsSpace(s[Len(s)]) THEN RStrip(SubSeq(s, 1, Len(s) - 1)) ELSE s

\* str.strip()
Strip(s) == RStrip(LStrip(s))

\* s.startswith("-") or s.endswith("-")
HyphenEdge(s) == s # <<>> /\ (s[1] = "-" \/ s[Len(s)] = "-")

\* "--" in s
HasDoubleHyphen(s) == \E i \in 1..(Len(s) - 1) : s[i] = "-" /\ s[i + 1] = "-"

\* not all(c.isalnum() or c == "-" for c in s)
HasInvalidChar(s) == \E i \in 1..Len(s) : ~(IsAlnum(s[i]) \/ s[i] = "-")

(***************************************************************************)
(* Python values.                                                          *)
(***************************************************************************)
Str(s) == [type |-> "str", val |-> s]
ListVal == [type |-> "list", val |-> <<"x">>]
DictVal == [type |-> "dict", val |-> <<"x">>]
PathVal(s) == [type |-> "Path", val |-> s]
None == [type |-> "NoneType", val |-> <<>>]

IsStr(v) == v.type = "str"

\* Python truthiness: None and empty containers are false, a Path is true
Truthy(v) ==
    CASE v.type = "NoneType" -> FALSE
      [] v.type = "Path" -> TRUE
      [] OTHER -> v.val # <<>>

(***************************************************************************)
(* Result/error model (models.py).                                         *)
(***************************************************************************)
\* ValidationError.line default
NoLine == 0

ValidationError(message, line, args, count, suggestion) ==
    [message |-> message, line |-> line, file |-> "SKILL.md",
     args |-> args, count |-> count, suggestion |-> suggestion]

\* ValidationResult(skill_path=...) after __post_init__
ValidationResult ==
    [skill_name |-> None, is_valid |-> TRUE, errors |-> <<>>]

\* an error appended without the flag being cleared
add_error_noflag(r, e) == [r EXCEPT !.errors = Append(@, e)]

\* the new error inserted at the head of the list
add_error_front(r, e) == [r EXCEPT !.errors = <<e>> \o @, !.is_valid = FALSE]

\* ValidationResult.add_error: append, then is_valid = False
add_error(r, e) == [r EXCEPT !.errors = Append(@, e), !.is_valid = FALSE]


(***************************************************************************)
(* Frontmatter parser (validator.py 44-79).                                *)
(*                                                                         *)
(* A file's content is a sequence of tokens: the characters "-", "\n" and  *)
(* "x" (any other text), and field lines.  A field line is written as its  *)
(* key, "name" standing for the whole line `name: <value>\n`; the values   *)
(* are kept beside the content, in a mapping from key to decoded value.    *)
(***************************************************************************)
FieldKeys == {"name", "description", "license", "compatibility", "author", "version"}

\* the "---" token starts at position i of s
DelimAt(s, i) == i + 2 <= Len(s) /\ s[i] = "-" /\ s[i + 1] = "-" /\ s[i + 2] = "-"

\* content.startswith("---")
StartsWithDelim(content) == DelimAt(content, 1)

\* str.find("---", from): the first position >= from where the token starts, 0 if none
RECURSIVE FindDelim(_, _)
FindDelim(s, from) ==
    IF from + 2 > Len(s) THEN 0
    ELSE IF DelimAt(s, from) THEN from
    ELSE FindDelim(s, from + 1)

\* content.split("---") without the limit, the first three parts kept
SplitDelimAll(content) ==
    LET i1 == FindDelim(content, 1)
        i2 == FindDelim(content, i1 + 3)
        i3 == FindDelim(content, i2 + 3)
    IN  IF i1 = 0 THEN <<content>>
        ELSE IF i2 = 0
        THEN <<SubSeq(content, 1, i1 - 1), SubSeq(content, i1 + 3, Len(content))>>
        ELSE <<SubSeq(content, 1, i1 - 1),
               SubSeq(content, i1 + 3, i2 - 1),
               SubSeq(content, i2 + 3, IF i3 = 0 THEN Len(content) ELSE i3 - 1)>>

\* content.split("---", 2): at most two splits, left to right
SplitDelim2(content) ==
    LET i1 == FindDelim(content, 1)
        i2 == FindDelim(content, i1 + 3)
    IN  IF i1 = 0 THEN <<content>>
        ELSE IF i2 = 0
        THEN <<SubSeq(content, 1, i1 - 1), SubSeq(content, i1 + 3, Len(content))>>
        ELSE <<SubSeq(content, 1, i1 - 1),
               SubSeq(content, i1 + 3, i2 - 1),
               SubSeq(content, i2 + 3, Len(content))>>

\* the keys of the field lines of a block, in order
KeysOf(block) == SelectSeq(block, LAMBDA t : t \in FieldKeys)

\* strictyaml.load(frontmatter_str).data: a block of field lines and line
\* breaks with no key twice decodes to the mapping of its keys; no field line
\* at all decodes to a scalar; anything else is a YAMLError
YamlLoad(block, values) ==
    LET keys == KeysOf(block)
        clean == \A i \in 1..Len(block) : block[i] \in FieldKeys \cup {"\n"}
        distinct == \A i, j \in 1..Len(keys) : keys[i] = keys[j] => i = j
    IN  IF keys = <<>> THEN [kind |-> "scalar", data |-> <<>>]
        ELSE IF clean /\ distinct
        THEN [kind |-> "mapping",
              data |-> [k \in {keys[i] : i \in 1..Len(keys)} |-> values[k]]]
        ELSE [kind |-> "YAMLError", data |-> <<>>]

NotParsed == [ok |-> FALSE, error |-> "", metadata |-> <<>>, body |-> <<>>]

ParseError(message) == [NotParsed EXCEPT !.error = message]

\* parse_frontmatter(content): the (metadata, body) pair, or the ValueError raised.
\* The values strictyaml decodes under `metadata` are strings already, so the
\* str() coercion of lines 76-77 leaves the mapping as decoded.
parse_frontmatter(content, values) ==
    IF ~StartsWithDelim(content)
    THEN ParseError("SKILL.md must start with YAML frontmatter (---)")
    ELSE LET parts == SplitDelim2(content) IN
         IF Len(parts) < 3
         THEN ParseError("SKILL.md frontmatter not properly closed with ---")
         ELSE LET loaded == YamlLoad(parts[2], values) IN
              IF loaded.kind = "YAMLError"
              THEN ParseError("Invalid YAML in frontmatter")
              ELSE IF loaded.kind # "mapping"
              THEN ParseError("SKILL.md frontmatter must be a YAML mapping")
              ELSE [ok |-> TRUE, error |-> "", metadata |-> loaded.data,
                    body |-> Strip(parts[3])]

(***************************************************************************)
(* Field validators (validator.py 82-188).                                 *)
(***************************************************************************)
\* not v or not isinstance(v, str) or not v.strip()
NotNonEmptyString(v) == ~Truthy(v) \/ ~IsStr(v) \/ Strip(v.val) = <<>>

\* the name the checks of validate_name run on: normalize("NFKC", name.strip())
NormalizedName(name) == NFKC(Strip(name.val))

\* the limit taken as exclusive
NameTooLongInclusive(name) == Len(name) >= MAX_SKILL_NAME_LENGTH

\* len(name) > MAX_SKILL_NAME_LENGTH
NameTooLong(name) == Len(name) > MAX_SKILL_NAME_LENGTH

\* name != name.lower()
NotLowercase(name) == name # Lower(name)

\* the directory compared case-insensitively
DirMismatchLower(skill_dir, name) == Lower(NFKC(skill_dir.val)) # Lower(name)

\* dir_name = normalize("NFKC", skill_dir.name); dir_name != name
DirMismatch(skill_dir, name) == NFKC(skill_dir.val) # name


\* the checks chained with elif: the first failing check ends the validation
validate_name_checks_first(name, skill_dir, r) ==
    IF NameTooLong(name)
    THEN add_error(r, ValidationError("Skill name exceeds character limit",
                                      2, <<name>>, Len(name), TRUE))
    ELSE IF NotLowercase(name)
    THEN add_error(r, ValidationError("Skill name must be lowercase",
                                      2, <<name>>, 0, TRUE))
    ELSE IF HyphenEdge(name)
    THEN add_error(r, ValidationError("Skill name cannot start or end with a hyphen",
                                      2, <<>>, 0, TRUE))
    ELSE IF HasDoubleHyphen(name)
    THEN add_error(r, ValidationError("Skill name cannot contain consecutive hyphens",
                                      2, <<>>, 0, TRUE))
    ELSE IF HasInvalidChar(name)
    THEN add_error(r, ValidationError("Skill name contains invalid characters",
                                      2, <<name>>, 0, TRUE))
    ELSE IF Truthy(skill_dir) /\ DirMismatch(skill_dir, name)
    THEN add_error(r, ValidationError("Directory name must match skill name",
                                      2, <<skill_dir.val, name>>, 0, TRUE))
    ELSE r

validate_name_checks(name, skill_dir, r) ==
    LET r1 == IF NameTooLong(name)
              THEN add_error(r, ValidationError("Skill name exceeds character limit",
                                                2, <<name>>, Len(name), TRUE))
              ELSE r
        r2 == IF NotLowercase(name)
              THEN add_error(r1, ValidationError("Skill name must be lowercase",
                                                 2, <<name>>, 0, TRUE))
              ELSE r1
        r3 == IF HyphenEdge(name)
              THEN add_error(r2, ValidationError("Skill name cannot start or end with a hyphen",
                                                 2, <<>>, 0, TRUE))
              ELSE r2
        r4 == IF HasDoubleHyphen(name)
              THEN add_error(r3, ValidationError("Skill name cannot contain consecutive hyphens",
                                                 2, <<>>, 0, TRUE))
              ELSE r3
        r5 == IF HasInvalidChar(name)
              THEN add_error(r4, ValidationError("Skill name contains invalid characters",
                                                 2, <<name>>, 0, TRUE))
              ELSE r4
        r6 == IF Truthy(skill_dir) /\ DirMismatch(skill_dir, name)
              THEN add_error(r5, ValidationError("Directory name must match skill name",
                                                 2, <<skill_dir.val, name>>, 0, TRUE))
              ELSE r5
    IN  r6

validate_name(name, skill_dir, r) ==
    IF NotNonEmptyString(name)
    THEN add_error(r, ValidationError("Field 'name' must be a non-empty string",
                                      2, <<>>, 0, TRUE))
    ELSE validate_name_checks(NormalizedName(name), skill_dir, r)

\* the length taken after trimming
DescriptionTooLongStripped(description) ==
    Len(Strip(description.val)) > MAX_DESCRIPTION_LENGTH

\* len(description) > MAX_DESCRIPTION_LENGTH
DescriptionTooLong(description) == Len(description.val) > MAX_DESCRIPTION_LENGTH

validate_description(description, r) ==
    IF NotNonEmptyString(description)
    THEN add_error(r, ValidationError("Field 'description' must be a non-empty string",
                                      3, <<>>, 0, TRUE))
    ELSE IF DescriptionTooLong(description)
    THEN add_error(r, ValidationError("Description exceeds character limit",
                                      3, <<>>, Len(description.val), TRUE))
    ELSE r

\* the limit taken as exclusive
CompatibilityTooLongInclusive(compatibility) ==
    Len(compatibility.val) >= MAX_COMPATIBILITY_LENGTH

\* len(compatibility) > MAX_COMPATIBILITY_LENGTH
CompatibilityTooLong(compatibility) ==
    Len(compatibility.val) > MAX_COMPATIBILITY_LENGTH

validate_compatibility(compatibility, r) ==
    IF ~IsStr(compatibility)
    THEN add_error(r, ValidationError("Field 'compatibility' must be a string",
                                      NoLine, <<>>, 0, TRUE))
    ELSE IF CompatibilityTooLong(compatibility)
    THEN add_error(r, ValidationError("Compatibility exceeds character limit",
                                      NoLine, <<>>, Len(compatibility.val), TRUE))
    ELSE r

\* sorted(...) over field names: the keys in lexicographic order
KeyOrder == <<"author", "compatibility", "description", "license", "name", "version">>

SortedKeys(S) == SelectSeq(KeyOrder, LAMBDA k : k \in S)

\* set(metadata.keys()) - ALLOWED_FIELDS
ExtraFields(metadata) == DOMAIN metadata \ ALLOWED_FIELDS

\* one error per unexpected field instead of one combined error
RECURSIVE add_each(_, _)
add_each(keys, r) ==
    IF keys = <<>> THEN r
    ELSE add_each(Tail(keys),
                  add_error(r, ValidationError("Unexpected fields in frontmatter", 1,
                                               <<<<Head(keys)>>>>, 0, TRUE)))

validate_metadata_fields_each(metadata, r) ==
    add_each(SortedKeys(ExtraFields(metadata)), r)

validate_metadata_fields(metadata, r) ==
    IF ExtraFields(metadata) # {}
    THEN add_error(r, ValidationError("Unexpected fields in frontmatter", 1,
                       [i \in 1..Cardinality(ExtraFields(metadata)) |->
                            <<SortedKeys(ExtraFields(metadata))[i]>>],
                       0, TRUE))
    ELSE r

(***************************************************************************)
(* Bounded inputs of the field validators.                                 *)
(***************************************************************************)
\* all sequences over S of length at most n
SeqsUpTo(S, n) == UNION {[1..k -> S] : k \in 0..n}

\* s followed by as many c as it takes to reach the raw length n
Pad(s, c, n) == s \o [i \in 1..(n - Len(s)) |-> c]

NameChars == {"a", "A", "1", "-", "_", " ", "FW_A", "LIG_FI"}

ShortNames == SeqsUpTo(NameChars, MaxNameLen)

\* names whose raw length is within Slack of the limit
LongNames ==
    {Pad(s, "a", n) : s \in SeqsUpTo(NameChars, 1),
                      n \in (MAX_SKILL_NAME_LENGTH - Slack)..(MAX_SKILL_NAME_LENGTH + Slack)}

NameValues == {Str(s) : s \in ShortNames \cup LongNames} \cup {ListVal, DictVal, None}

\* the directory contexts a name is validated in: none, a directory called as
\* the name is written, one called as the name normalizes, and another one
DirChoices(name) ==
    {None, PathVal(<<"a">>), PathVal(name.val)}
        \cup (IF IsStr(name) THEN {PathVal(NormalizedName(name))} ELSE {})

(***************************************************************************)
(* validate_name as a pure function: SpecName.                             *)
(***************************************************************************)
InitName ==
    /\ pc = "name_call"
    /\ \E name \in NameValues : \E skill_dir \in DirChoices(name) :
           input = [name |-> name, skill_dir |-> skill_dir]
    /\ parsed = NotParsed
    /\ result = ValidationResult
    /\ calls = <<>>

ValidateNameCall ==
    /\ pc = "name_call"
    /\ result' = validate_name(input.name, input.skill_dir, result)
    /\ calls' = Append(calls, "validate_name")
    /\ pc' = "name_done"
    /\ UNCHANGED <<input, parsed>>

NextName == ValidateNameCall

SpecName == InitName /\ [][NextName]_vars

(***************************************************************************)
(* validate_description as a pure function: SpecDesc.                      *)
(***************************************************************************)
DescChars == {"a", "A", " ", "\n"}

LongDescriptions ==
    {Pad(s, "a", n) : s \in SeqsUpTo(DescChars, 1),
                      n \in (MAX_DESCRIPTION_LENGTH - Slack)..(MAX_DESCRIPTION_LENGTH + Slack)}

DescriptionValues ==
    {Str(s) : s \in SeqsUpTo(DescChars, MaxDescLen) \cup LongDescriptions}
        \cup {ListVal, DictVal, None}

InitDesc ==
    /\ pc = "description_call"
    /\ \E description \in DescriptionValues : input = [description |-> description]
    /\ parsed = NotParsed
    /\ result = ValidationResult
    /\ calls = <<>>

ValidateDescriptionCall ==
    /\ pc = "description_call"
    /\ result' = validate_description(input.description, result)
    /\ calls' = Append(calls, "validate_description")
    /\ pc' = "description_done"
    /\ UNCHANGED <<input, parsed>>

NextDesc == ValidateDescriptionCall

SpecDesc == InitDesc /\ [][NextDesc]_vars

(***************************************************************************)
(* parse_frontmatter as a pure function: SpecParse.                        *)
(***************************************************************************)
\* longest content enumerated exhaustively over ContentTokens
MaxContentLen == 7

ContentTokens == {"-", "\n", "x", "name"}

BaseValues ==
    [k \in {"name", "description"} |->
        IF k = "name" THEN Str(<<"a", "-", "1">>) ELSE Str(<<"a", " ", "a">>)]

\* longest text enumerated exhaustively after a closed frontmatter block
MaxBodyLen == 5

\* every short content, and every short text after a closed one-line block
ParseContents ==
    SeqsUpTo(ContentTokens, MaxContentLen)
        \cup {<<"-", "-", "-", "name", "-", "-", "-">> \o body :
                 body \in SeqsUpTo(ContentTokens, MaxBodyLen)}

InitParse ==
    /\ pc = "parse_call"
    /\ \E content \in ParseContents :
           input = [content |-> content, values |-> BaseValues]
    /\ parsed = NotParsed
    /\ result = ValidationResult
    /\ calls = <<>>

ParseFrontmatterCall ==
    /\ pc = "parse_call"
    /\ parsed' = parse_frontmatter(input.content, input.values)
    /\ calls' = Append(calls, "parse_frontmatter")
    /\ pc' = "parse_done"
    /\ UNCHANGED <<input, result>>

NextParse == ParseFrontmatterCall

SpecParse == InitParse /\ [][NextParse]_vars

(***************************************************************************)
(* validate_skill (validator.py 191-259): Spec.                            *)
(*                                                                         *)
(* The world a call sees: what the path is, the resolved directory's base  *)
(* name, the metadata files in it with their contents, how reading the     *)
(* chosen file ends, and the values of the field lines.                    *)
(***************************************************************************)
\* find_skill_md: SKILL.md is preferred, skill.md accepted
find_skill_md(files) ==
    IF "SKILL.md" \in DOMAIN files THEN "SKILL.md"
    ELSE IF "skill.md" \in DOMAIN files THEN "skill.md"
    ELSE "None"

\* Path(skill_dir).resolve() raises on this path: an embedded NUL is a
\* ValueError on every interpreter, a symlink loop a RuntimeError before 3.13
ResolveMayRaise(path) == path \in {"nul", "loop"}

\* Path(skill_dir).resolve() returns on this path
ResolveMayReturn(path) == path # "nul"

\* skill_dir.exists()
PathExists(path) == path \in {"file", "dir"}

\* skill_dir.is_dir()
PathIsDir(path) == path = "dir"

Resolve ==
    /\ pc = "START"
    /\ ResolveMayReturn(input.path)
    /\ pc' = "DIRECTORY_CHECK"
    /\ UNCHANGED <<input, parsed, result, calls>>

ResolveRaises ==
    /\ pc = "START"
    /\ ResolveMayRaise(input.path)
    /\ pc' = "RAISED"
    /\ UNCHANGED <<input, parsed, result, calls>>

DirectoryCheck ==
    /\ pc = "DIRECTORY_CHECK"
    /\ IF ~PathExists(input.path)
       THEN /\ result' = add_error(result, ValidationError("Path does not exist",
                                                           NoLine, <<>>, 0, FALSE))
            /\ pc' = "DONE"
       ELSE IF ~PathIsDir(input.path)
       THEN /\ result' = add_error(result, ValidationError("Not a directory",
                                                           NoLine, <<>>, 0, FALSE))
            /\ pc' = "DONE"
       ELSE /\ result' = result
            /\ pc' = "FILE_LOOKUP"
    /\ UNCHANGED <<input, parsed, calls>>

FileLookup ==
    /\ pc = "FILE_LOOKUP"
    /\ calls' = Append(calls, "find_skill_md")
    /\ IF find_skill_md(input.files) = "None"
       THEN /\ result' = add_error(result, ValidationError("Missing required file: SKILL.md",
                                                           NoLine, <<>>, 0, TRUE))
            /\ pc' = "DONE"
       ELSE /\ result' = result
            /\ pc' = "PARSE"
    /\ UNCHANGED <<input, parsed>>

\* a parser failure recorded without returning
ParseNoReturn ==
    /\ pc = "PARSE"
    /\ IF input.read # "ok"
       THEN /\ result' = add_error(result, ValidationError("Error reading SKILL.md",
                                                           NoLine, <<>>, 0, FALSE))
            /\ parsed' = parsed
            /\ calls' = calls
            /\ pc' = "DONE"
       ELSE LET p == parse_frontmatter(input.files[find_skill_md(input.files)],
                                       input.values)
            IN  /\ calls' = Append(calls, "parse_frontmatter")
                /\ result' = IF p.ok THEN result
                             ELSE add_error(result, ValidationError(p.error,
                                                           NoLine, <<>>, 0, FALSE))
                /\ parsed' = p
                /\ pc' = "FIELD_VALIDATION"
    /\ UNCHANGED input

Parse ==
    /\ pc = "PARSE"
    /\ IF input.read # "ok"
       THEN /\ result' = add_error(result, ValidationError("Error reading SKILL.md",
                                                           NoLine, <<>>, 0, FALSE))
            /\ parsed' = parsed
            /\ calls' = calls
            /\ pc' = "DONE"
       ELSE LET p == parse_frontmatter(input.files[find_skill_md(input.files)],
                                       input.values)
            IN  /\ calls' = Append(calls, "parse_frontmatter")
                /\ IF ~p.ok
                   THEN /\ result' = add_error(result, ValidationError(p.error,
                                                           NoLine, <<>>, 0, FALSE))
                        /\ parsed' = parsed
                        /\ pc' = "DONE"
                   ELSE /\ result' = result
                        /\ parsed' = p
                        /\ pc' = "FIELD_VALIDATION"
    /\ UNCHANGED input

Whitelist ==
    /\ pc = "FIELD_VALIDATION"
    /\ result' = validate_metadata_fields(parsed.metadata, result)
    /\ calls' = Append(calls, "validate_metadata_fields")
    /\ pc' = "NAME_FIELD"
    /\ UNCHANGED <<input, parsed>>

\* skill_name recorded only once the name has passed its validator
name_field_set_if_valid(metadata, skill_dir, r) ==
    IF "name" \notin DOMAIN metadata
    THEN add_error(r, ValidationError("Missing required field in frontmatter: name",
                                      1, <<>>, 0, TRUE))
    ELSE LET checked == validate_name(metadata["name"], skill_dir, r)
         IN  IF checked.errors = r.errors
             THEN [checked EXCEPT !.skill_name = metadata["name"]]
             ELSE checked

\* the name validator run on the missing value as well
name_field_always(metadata, skill_dir, r) ==
    IF "name" \notin DOMAIN metadata
    THEN validate_name(None, skill_dir,
             add_error(r, ValidationError("Missing required field in frontmatter: name",
                                          1, <<>>, 0, TRUE)))
    ELSE validate_name(metadata["name"], skill_dir,
                       [r EXCEPT !.skill_name = metadata["name"]])

\* lines 236-244
name_field(metadata, skill_dir, r) ==
    IF "name" \notin DOMAIN metadata
    THEN add_error(r, ValidationError("Missing required field in frontmatter: name",
                                      1, <<>>, 0, TRUE))
    ELSE validate_name(metadata["name"], skill_dir,
                       [r EXCEPT !.skill_name = metadata["name"]])

\* the description group skipped once an earlier group has recorded an error
description_field_if_clean(metadata, r) ==
    IF ~r.is_valid THEN r
    ELSE IF "description" \notin DOMAIN metadata
    THEN add_error(r, ValidationError("Missing required field in frontmatter: description",
                                      1, <<>>, 0, TRUE))
    ELSE validate_description(metadata["description"], r)

\* lines 246-253
description_field(metadata, r) ==
    IF "description" \notin DOMAIN metadata
    THEN add_error(r, ValidationError("Missing required field in frontmatter: description",
                                      1, <<>>, 0, TRUE))
    ELSE validate_description(metadata["description"], r)

\* the compatibility validator called whether or not the field is there
compatibility_field_always(metadata, r) ==
    validate_compatibility(IF "compatibility" \in DOMAIN metadata
                           THEN metadata["compatibility"] ELSE None, r)

\* lines 256-257
compatibility_field(metadata, r) ==
    IF "compatibility" \in DOMAIN metadata
    THEN validate_compatibility(metadata["compatibility"], r)
    ELSE r

\* the validator a field group invokes, if any
Invoked(present, validator, log) == IF present THEN Append(log, validator) ELSE log

NameField ==
    /\ pc = "NAME_FIELD"
    /\ result' = name_field(parsed.metadata, PathVal(input.dir_name), result)
    /\ calls' = Invoked("name" \in DOMAIN parsed.metadata, "validate_name", calls)
    /\ pc' = "DESCRIPTION_FIELD"
    /\ UNCHANGED <<input, parsed>>

DescriptionField ==
    /\ pc = "DESCRIPTION_FIELD"
    /\ result' = description_field(parsed.metadata, result)
    /\ calls' = Invoked("description" \in DOMAIN parsed.metadata,
                        "validate_description", calls)
    /\ pc' = "COMPATIBILITY_FIELD"
    /\ UNCHANGED <<input, parsed>>

CompatibilityField ==
    /\ pc = "COMPATIBILITY_FIELD"
    /\ result' = compatibility_field(parsed.metadata, result)
    /\ calls' = Invoked("compatibility" \in DOMAIN parsed.metadata,
                        "validate_compatibility", calls)
    /\ pc' = "DONE"
    /\ UNCHANGED <<input, parsed>>

(***************************************************************************)
(* The worlds validate_skill is run in.                                    *)
(***************************************************************************)
\* a field left out of the frontmatter
Absent == [type |-> "absent", val |-> <<>>]

GoodName == <<"a", "-", "1">>

MainNames ==
    {Str(s) : s \in {GoodName, <<" ", "a", "-", "1">>, <<"FW_A", "-", "1">>,
                     <<"A", "-", "1">>, <<"-", "a">>, <<"a", "-", "-", "1">>,
                     <<"a", "_", "1">>, <<" ">>}}
        \cup {Str(Pad(s, "a", n)) :
                 s \in {<<>>, <<"LIG_FI">>},
                 n \in (MAX_SKILL_NAME_LENGTH - Slack)..(MAX_SKILL_NAME_LENGTH + Slack)}
        \cup {ListVal, Absent}

MainDirs(name) ==
    {GoodName} \cup (IF IsStr(name) THEN {name.val, NormalizedName(name)} ELSE {})

MainDescriptions ==
    {Str(<<"a", " ", "a">>), Str(<<" ">>), ListVal, Absent}
        \cup {Str(Pad(<<" ">>, "a", n)) :
                 n \in (MAX_DESCRIPTION_LENGTH - Slack)..(MAX_DESCRIPTION_LENGTH + Slack)}

MainCompatibilities ==
    {Str(<<"a">>), ListVal, Absent}
        \cup {Str(Pad(<<>>, "a", n)) :
                 n \in (MAX_COMPATIBILITY_LENGTH - Slack)..(MAX_COMPATIBILITY_LENGTH + Slack)}

MainExtras == {{}, {"license"}, {"author"}, {"version", "license", "author"}}

\* the decoded values of the field lines present
Values(name, description, compatibility, extras) ==
    LET given == [k \in {"name", "description", "compatibility"} |->
                     CASE k = "name" -> name
                       [] k = "description" -> description
                       [] OTHER -> compatibility]
        keys == {k \in DOMAIN given : given[k] # Absent} \cup extras
    IN  [k \in keys |-> IF k \in DOMAIN given THEN given[k] ELSE Str(<<"x">>)]

\* the field lines of a mapping, one line per key
FieldLines(values) == SortedKeys(DOMAIN values)

Opening == <<"-", "-", "-", "\n">>

Closing == <<"-", "-", "-", "\n", "\n", "x", "\n">>

\* a well-formed SKILL.md: delimiter line, field lines, delimiter line, body
WellFormed(values) == Opening \o FieldLines(values) \o Closing

\* contents around the same field lines, well-formed and not
ContentShapes(values) ==
    LET lines == FieldLines(values)
    IN  {WellFormed(values),
         <<>>,
         <<"x", "\n">> \o lines,
         Opening \o lines,
         Opening \o <<"x", "\n">> \o lines \o Closing,
         Opening \o <<"x", "\n">> \o Closing,
         Opening \o lines \o lines \o Closing,
         <<"-", "-", "-">> \o lines \o <<"-", "-", "-">>,
         <<"-", "-", "-", "-", "\n">> \o lines \o Closing}

World(path, dir_name, files, read, values) ==
    [path |-> path, dir_name |-> dir_name, files |-> files, read |-> read,
     values |-> values]

\* the layouts of a directory holding content c
Layouts(c) ==
    {<<>>, "SKILL.md" :> c, "skill.md" :> c, ("SKILL.md" :> c) @@ ("skill.md" :> <<"x">>),
     ("SKILL.md" :> <<"x">>) @@ ("skill.md" :> c)}

\* paths that are no directory
PathWorlds ==
    {World(path, GoodName, "SKILL.md" :> WellFormed(BaseValues), "ok", BaseValues) :
        path \in {"nul", "loop", "missing", "file"}}

\* directories in every layout, read outcome and content shape
FileWorlds ==
    {World("dir", GoodName, files, read, BaseValues) :
        files \in UNION {Layouts(c) : c \in ContentShapes(BaseValues)},
        read \in {"ok", "OSError", "UnicodeDecodeError"}}

\* directories with a well-formed SKILL.md over every combination of fields
FieldWorlds ==
    UNION {{World("dir", dir_name, "SKILL.md" :> WellFormed(
                      Values(name, description, compatibility, extras)), "ok",
                  Values(name, description, compatibility, extras)) :
               dir_name \in MainDirs(name)} :
           name \in MainNames, description \in MainDescriptions,
           compatibility \in MainCompatibilities, extras \in MainExtras}

Init ==
    /\ pc = "START"
    /\ input \in PathWorlds \cup FileWorlds \cup FieldWorlds
    /\ parsed = NotParsed
    /\ result = ValidationResult
    /\ calls = <<>>

Next ==
    \/ Resolve
    \/ ResolveRaises
    \/ DirectoryCheck
    \/ FileLookup
    \/ Parse
    \/ Whitelist
    \/ NameField
    \/ DescriptionField
    \/ CompatibilityField
Spec == Init /\ [][Next]_vars

(***************************************************************************)
(* Properties.                                                             *)
(***************************************************************************)
\* the errors of r carrying the message
Count(r, message) ==
    Cardinality({i \in 1..Len(r.errors) : r.errors[i].message = message})

Has(r, message) == Count(r, message) > 0

MissingFrontmatter == "SKILL.md must start with YAML frontmatter (---)"

ParserMessages ==
    {MissingFrontmatter, "SKILL.md frontmatter not properly closed with ---",
     "Invalid YAML in frontmatter", "SKILL.md frontmatter must be a YAML mapping"}

NameBlank == "Field 'name' must be a non-empty string"
NameLength == "Skill name exceeds character limit"
NameCase == "Skill name must be lowercase"
NameEdge == "Skill name cannot start or end with a hyphen"
NameDouble == "Skill name cannot contain consecutive hyphens"
NameInvalid == "Skill name contains invalid characters"
NameDir == "Directory name must match skill name"
NameMissing == "Missing required field in frontmatter: name"

DescBlank == "Field 'description' must be a non-empty string"
DescLength == "Description exceeds character limit"
DescMissing == "Missing required field in frontmatter: description"

NameValidatorMessages ==
    {NameBlank, NameLength, NameCase, NameEdge, NameDouble, NameInvalid, NameDir}

DescValidatorMessages == {DescBlank, DescLength}

FieldMessages ==
    NameValidatorMessages \cup DescValidatorMessages
        \cup {NameMissing, DescMissing, "Unexpected fields in frontmatter",
              "Field 'compatibility' must be a string",
              "Compatibility exceeds character limit"}

InCalls(f) == \E i \in 1..Len(calls) : calls[i] = f

\* C1: is_valid is true exactly when the errors list is empty, in every state
\* of a validate_skill run.
C1_ValidIffNoErrors == result.is_valid <=> (result.errors = <<>>)

C1_Witness ==
    pc = "DONE" /\ Len(result.errors) >= 3 /\ ~result.is_valid

\* C2: validate_skill never raises past its own boundary, whatever the path.
C2_NeverRaises == pc # "RAISED"

\* the file validate_skill reads in this world parses
ParsesHere(w) ==
    parse_frontmatter(w.files[find_skill_md(w.files)], w.values).ok

\* the gate a world fails at before FIELD_VALIDATION, "none" when all pass
FailingGate(w) ==
    IF w.path \notin {"file", "dir"} THEN "Path does not exist"
    ELSE IF w.path = "file" THEN "Not a directory"
    ELSE IF DOMAIN w.files = {} THEN "Missing required file: SKILL.md"
    ELSE IF w.read # "ok" THEN "Error reading SKILL.md"
    ELSE IF ~ParsesHere(w) THEN "parser"
    ELSE "none"

\* C3: a run that exits at a gate before FIELD_VALIDATION returns exactly one
\* error, the one of the failing gate, no field error, and skill_name unset.
C3_GateExitSingleError ==
    (pc = "DONE" /\ FailingGate(input) # "none") =>
        /\ Len(result.errors) = 1
        /\ IF FailingGate(input) = "parser"
           THEN result.errors[1].message \in ParserMessages
           ELSE result.errors[1].message = FailingGate(input)
        /\ result.errors[1].message \notin FieldMessages
        /\ result.skill_name = None
        /\ ~InCalls("validate_metadata_fields")

C3_Witness ==
    /\ pc = "DONE"
    /\ FailingGate(input) = "parser"
    /\ Len(result.errors) = 1
    /\ result.errors[1].message = "Invalid YAML in frontmatter"

\* the name rules of the claim on a string n against the directory name d
NameRules(n, d) ==
    /\ Len(n) <= MAX_SKILL_NAME_LENGTH
    /\ \A i \in 1..Len(n) : n[i] # "A"
    /\ n[1] # "-" /\ n[Len(n)] # "-"
    /\ \A i \in 1..(Len(n) - 1) : ~(n[i] = "-" /\ n[i + 1] = "-")
    /\ \A i \in 1..Len(n) : n[i] \in {"a", "b", "f", "i", "x", "1", "FW_A", "LIG_FI", "-"}
    /\ n = d

\* the rules of the claim on the fields other than name
OtherRules(m) ==
    /\ DOMAIN m \subseteq ALLOWED_FIELDS
    /\ "description" \in DOMAIN m
    /\ m["description"].type = "str"
    /\ Strip(m["description"].val) # <<>>
    /\ Len(m["description"].val) <= MAX_DESCRIPTION_LENGTH
    /\ "compatibility" \in DOMAIN m =>
           /\ m["compatibility"].type = "str"
           /\ Len(m["compatibility"].val) <= MAX_COMPATIBILITY_LENGTH

NamePresent(m) ==
    /\ "name" \in DOMAIN m
    /\ m["name"].type = "str"
    /\ Strip(m["name"].val) # <<>>

\* C4 as stated: the result is valid with zero errors exactly when every gate
\* passes and the declared name, as written, meets the name rules and equals
\* the directory base name, and the other fields meet theirs.
C4_ValidIffRulesOnDeclaredName ==
    pc = "DONE" =>
        ((result.is_valid /\ result.errors = <<>>) <=>
            /\ FailingGate(input) = "none"
            /\ NamePresent(parsed.metadata)
            /\ NameRules(parsed.metadata["name"].val, input.dir_name)
            /\ OtherRules(parsed.metadata))

\* C4 amended: the result is valid with zero errors exactly when every gate
\* passes, the name after trimming and NFKC normalization meets the name rules
\* and equals the NFKC-normalized directory base name, and the other fields
\* meet theirs; skill_name is then the declared name as written.
C4_ValidIffRulesOnNormalizedName ==
    pc = "DONE" =>
        /\ (result.is_valid /\ result.errors = <<>>) <=>
               /\ FailingGate(input) = "none"
               /\ NamePresent(parsed.metadata)
               /\ NameRules(NFKC(Strip(parsed.metadata["name"].val)),
                            NFKC(input.dir_name))
               /\ OtherRules(parsed.metadata)
        /\ result.is_valid => result.skill_name = input.values["name"]

C4_Witness ==
    /\ pc = "DONE"
    /\ result.is_valid
    /\ result.skill_name = Str(<<" ", "a", "-", "1">>)
    /\ input.dir_name = GoodName
    /\ "compatibility" \in DOMAIN parsed.metadata
    /\ Len(parsed.metadata["compatibility"].val) = MAX_COMPATIBILITY_LENGTH

\* C5: past the name group a missing name yields exactly one missing-field
\* error at line 1 and no call of the name validator, a present name yields a
\* call of the name validator and no missing-field error; likewise for
\* description; no result holds both kinds of error for one field.
C5_RequiredFieldExclusive ==
    /\ pc \in {"DESCRIPTION_FIELD", "COMPATIBILITY_FIELD", "DONE"} /\ parsed.ok =>
           IF "name" \notin DOMAIN parsed.metadata
           THEN /\ Count(result, NameMissing) = 1
                /\ \A i \in 1..Len(result.errors) :
                       result.errors[i].message = NameMissing => result.errors[i].line = 1
                /\ ~InCalls("validate_name")
                /\ \A msg \in NameValidatorMessages : ~Has(result, msg)
           ELSE /\ InCalls("validate_name")
                /\ ~Has(result, NameMissing)
    /\ pc \in {"COMPATIBILITY_FIELD", "DONE"} /\ parsed.ok =>
           IF "description" \notin DOMAIN parsed.metadata
           THEN /\ Count(result, DescMissing) = 1
                /\ \A i \in 1..Len(result.errors) :
                       result.errors[i].message = DescMissing => result.errors[i].line = 1
                /\ ~InCalls("validate_description")
                /\ \A msg \in DescValidatorMessages : ~Has(result, msg)
           ELSE /\ InCalls("validate_description")
                /\ ~Has(result, DescMissing)

C5_Witness ==
    /\ pc = "DONE"
    /\ Has(result, NameMissing)
    /\ InCalls("validate_description")
    /\ Has(result, DescLength)

\* the content begins with a line consisting of exactly ---
BeginsWithDelimiterLine(content) ==
    /\ Len(content) >= 3
    /\ content[1] = "-" /\ content[2] = "-" /\ content[3] = "-"
    /\ Len(content) = 3 \/ content[4] = "\n"

\* C6: parse_frontmatter fails with the missing-frontmatter error for every
\* content that does not begin with a line consisting of exactly ---, and
\* only for those.
C6_MissingIffNoDelimiterLine ==
    pc = "parse_done" =>
        ((~parsed.ok /\ parsed.error = MissingFrontmatter)
            <=> ~BeginsWithDelimiterLine(input.content))

\* a string name that is not blank
NonBlankString(v) == v.type = "str" /\ Strip(v.val) # <<>>

Indicator(b) == IF b THEN 1 ELSE 0

\* C7: for a non-blank name each of the six checks appends exactly one error
\* when its own condition holds on the normalized trimmed name and none
\* otherwise, so the number of errors is the number of violated checks.
C7_ChecksIndependent ==
    (pc = "name_done" /\ NonBlankString(input.name)) =>
        LET n == NFKC(Strip(input.name.val))
            long == Len(n) > MAX_SKILL_NAME_LENGTH
            upper == \E i \in 1..Len(n) : n[i] = "A"
            edge == n[1] = "-" \/ n[Len(n)] = "-"
            double == \E i \in 1..(Len(n) - 1) : n[i] = "-" /\ n[i + 1] = "-"
            chars == \E i \in 1..Len(n) : n[i] \in {"_", " "}
            dir == input.skill_dir # None /\ NFKC(input.skill_dir.val) # n
        IN  /\ Count(result, NameLength) = Indicator(long)
            /\ Count(result, NameCase) = Indicator(upper)
            /\ Count(result, NameEdge) = Indicator(edge)
            /\ Count(result, NameDouble) = Indicator(double)
            /\ Count(result, NameInvalid) = Indicator(chars)
            /\ Count(result, NameDir) = Indicator(dir)
            /\ Len(result.errors) =
                   Indicator(long) + Indicator(upper) + Indicator(edge)
                       + Indicator(double) + Indicator(chars) + Indicator(dir)

C7_Witness ==
    /\ pc = "name_done"
    /\ NonBlankString(input.name)
    /\ Len(result.errors) = 4
    /\ Has(result, NameCase) /\ Has(result, NameEdge) /\ Has(result, NameDouble)
    /\ Has(result, NameDir)

\* C8: with a directory context and a non-blank name, the directory-mismatch
\* error is appended exactly when the NFKC-normalized directory base name
\* differs from the NFKC-normalized trimmed name, compared without lowercasing.
C8_DirMismatchIffDiffers ==
    (pc = "name_done" /\ NonBlankString(input.name) /\ input.skill_dir # None) =>
        Count(result, NameDir) =
            Indicator(NFKC(input.skill_dir.val) # NFKC(Strip(input.name.val)))

C8_Witness ==
    /\ pc = "name_done"
    /\ input.name = Str(<<"A">>)
    /\ input.skill_dir = PathVal(<<"a">>)
    /\ Has(result, NameDir)

\* C9: the length error, carrying the character count, is appended exactly
\* when the trimmed, NFKC-normalized name has more than 64 characters.
C9_LengthErrorIffOver64 ==
    (pc = "name_done" /\ input.name.type = "str") =>
        LET n == NFKC(Strip(input.name.val))
        IN  /\ Count(result, NameLength) = Indicator(Len(n) > 64)
            /\ \A i \in 1..Len(result.errors) :
                   result.errors[i].message = NameLength =>
                       result.errors[i].count = Len(n)

C9_Witness ==
    /\ pc = "name_done"
    /\ input.name.type = "str"
    /\ Len(input.name.val) = 64
    /\ Len(NFKC(Strip(input.name.val))) = 65
    /\ Has(result, NameLength)

\* C10: validate_description appends at most one error: the non-empty-string
\* error at line 3 when the description is missing, not a string or blank,
\* with no length check; otherwise the length error exactly when the raw,
\* untrimmed length is greater than 1024.
C10_DescriptionOneError ==
    pc = "description_done" =>
        LET d == input.description
            blank == d.type # "str" \/ Strip(d.val) = <<>>
        IN  /\ Len(result.errors) <= 1
            /\ Count(result, DescBlank) = Indicator(blank)
            /\ Count(result, DescLength) = Indicator(~blank /\ Len(d.val) > 1024)
            /\ \A i \in 1..Len(result.errors) : result.errors[i].line = 3

C10_Witness ==
    /\ pc = "description_done"
    /\ Len(input.description.val) = 1025
    /\ Len(Strip(input.description.val)) = 1024
    /\ Has(result, DescLength)

Unexpected == "Unexpected fields in frontmatter"

\* the run is past the whitelist check
PastWhitelist ==
    pc \in {"NAME_FIELD", "DESCRIPTION_FIELD", "COMPATIBILITY_FIELD", "DONE"} /\ parsed.ok

\* the field names of the metadata outside the six allowed ones, in
\* alphabetical order ("author" before "version")
UnexpectedSorted(m) ==
    LET outside == {k \in DOMAIN m :
                       k \notin {"name", "description", "license", "allowed-tools",
                                 "metadata", "compatibility"}}
    IN  SelectSeq(<<<<"author">>, <<"version">>>>, LAMBDA a : a[1] \in outside)

\* C11: the whitelist check appends one combined error at line 1 listing the
\* unexpected field names in sorted order when there are any and nothing
\* otherwise, and the name and description groups run in both cases.
C11_WhitelistOneCombinedError ==
    /\ PastWhitelist =>
           /\ Count(result, Unexpected) =
                  Indicator(UnexpectedSorted(parsed.metadata) # <<>>)
           /\ \A i \in 1..Len(result.errors) :
                  result.errors[i].message = Unexpected =>
                      /\ result.errors[i].line = 1
                      /\ result.errors[i].args = UnexpectedSorted(parsed.metadata)
    /\ (pc = "DONE" /\ parsed.ok) =>
           /\ InCalls("validate_name") \/ Has(result, NameMissing)
           /\ InCalls("validate_description") \/ Has(result, DescMissing)

C11_Witness ==
    /\ pc = "DONE"
    /\ Count(result, Unexpected) = 1
    /\ result.errors[1].args = <<<<"author">>, <<"version">>>>
    /\ "license" \in DOMAIN parsed.metadata
    /\ InCalls("validate_name")
    /\ Len(result.errors) = 1

\* C12: skill_name is set exactly when the run has gone through the name
\* group with a name field in the metadata; it is then the declared value,
\* whatever the name validator reported, and it is unset otherwise.
C12_SkillNameSetIffNamePresent ==
    IF pc \in {"DESCRIPTION_FIELD", "COMPATIBILITY_FIELD", "DONE"} /\ parsed.ok
          /\ "name" \in DOMAIN parsed.metadata
    THEN result.skill_name = input.values["name"] /\ result.skill_name # None
    ELSE result.skill_name = None

C12_Witness ==
    /\ pc = "DONE"
    /\ result.skill_name = Str(<<" ">>)
    /\ Has(result, NameBlank)

NotClosed == "SKILL.md frontmatter not properly closed with ---"

\* the positions after the opening token where the --- token starts again
LaterDelims(content) == {j \in 4..Len(content) : DelimAt(content, j)}

\* the first of them
SecondDelim(content) ==
    CHOOSE j \in LaterDelims(content) : \A k \in LaterDelims(content) : j <= k

\* C15: a content that starts with the --- token fails with the not-closed
\* error exactly when the token does not occur again after it; otherwise the
\* block is the text between the first two occurrences (the fields returned
\* are its field lines) and the body is all the text after the second
\* occurrence, stripped, later --- tokens included.
C15_SplitOnFirstTwoDelimiters ==
    (pc = "parse_done" /\ Len(input.content) >= 3 /\ input.content[1] = "-"
        /\ input.content[2] = "-" /\ input.content[3] = "-") =>
        LET c == input.content IN
        /\ (~parsed.ok /\ parsed.error = NotClosed) <=> LaterDelims(c) = {}
        /\ parsed.ok =>
               LET j == SecondDelim(c) IN
               /\ DOMAIN parsed.metadata =
                      {c[i] : i \in 4..(j - 1)} \ {"-", "\n", "x"}
               /\ parsed.body = Strip(SubSeq(c, j + 3, Len(c)))

C15_Witness ==
    /\ pc = "parse_done"
    /\ parsed.ok
    /\ Len(parsed.body) = 5
    /\ parsed.body[1] = "x"
    /\ DelimAt(parsed.body, 2)
    /\ parsed.body[5] = "name"

CompatNotString == "Field 'compatibility' must be a string"
CompatLength == "Compatibility exceeds character limit"

\* C18: in a finished validation whose metadata parsed, the compatibility
\* validator was called exactly when the compatibility field is present; a
\* present non-string value gives one "must be a string" error and no length
\* error; a present string gives one length error exactly when it is longer
\* than 500 characters; an absent field gives neither; and neither error
\* carries a line number.
C18_CompatibilityAtMostOneError ==
    (pc = "DONE" /\ parsed.ok) =>
        LET present == "compatibility" \in DOMAIN parsed.metadata
            isString == present /\ IsStr(parsed.metadata["compatibility"])
            tooLong == isString
                         /\ Len(parsed.metadata["compatibility"].val) > 500
        IN  /\ InCalls("validate_compatibility") <=> present
            /\ Count(result, CompatNotString) = Indicator(present /\ ~isString)
            /\ Count(result, CompatLength) = Indicator(tooLong)
            /\ \A i \in 1..Len(result.errors) :
                   result.errors[i].message \in {CompatNotString, CompatLength}
                       => result.errors[i].line = NoLine

C18_Witness ==
    /\ pc = "DONE"
    /\ parsed.ok
    /\ "compatibility" \in DOMAIN parsed.metadata
    /\ IsStr(parsed.metadata["compatibility"])
    /\ Len(parsed.metadata["compatibility"].val) = 501
    /\ Count(result, CompatLength) = 1
    /\ result.errors[Len(result.errors)].count = 501

\* the position of the group that emits a message, and of the one a call is in
GroupOf(message) ==
    IF message = Unexpected THEN 1
    ELSE IF message \in NameValidatorMessages \cup {NameMissing} THEN 2
    ELSE IF message \in DescValidatorMessages \cup {DescMissing} THEN 3
    ELSE IF message \in {CompatNotString, CompatLength} THEN 4
    ELSE 0

GroupOfCall(f) ==
    IF f = "validate_metadata_fields" THEN 1
    ELSE IF f = "validate_name" THEN 2
    ELSE IF f = "validate_description" THEN 3
    ELSE IF f = "validate_compatibility" THEN 4
    ELSE 0

\* the groups that have run at each position of validate_skill
GroupsRun ==
    IF pc = "NAME_FIELD" THEN 1
    ELSE IF pc = "DESCRIPTION_FIELD" THEN 2
    ELSE IF pc = "COMPATIBILITY_FIELD" THEN 3
    ELSE IF pc = "DONE" THEN 4
    ELSE 0

\* C16: once the metadata has parsed, the groups run in the order whitelist,
\* name, description, compatibility: at every position only the groups before
\* it have emitted errors or called validators, errors and calls appear in
\* group order, and each group has acted whatever the earlier groups
\* recorded (the whitelist was called; a missing name or description has its
\* missing-field error and a present one its validator call; a present
\* compatibility its validator call).
C16_GroupsInFixedOrder ==
    (parsed.ok /\ pc \in {"FIELD_VALIDATION", "NAME_FIELD", "DESCRIPTION_FIELD",
                          "COMPATIBILITY_FIELD", "DONE"}) =>
        LET e == result.errors
            m == parsed.metadata
        IN  /\ \A i \in 1..Len(e) : GroupOf(e[i].message) \in 1..GroupsRun
            /\ \A i, j \in 1..Len(e) :
                   i < j => GroupOf(e[i].message) <= GroupOf(e[j].message)
            /\ \A i \in 1..Len(calls) : GroupOfCall(calls[i]) <= GroupsRun
            /\ \A i, j \in 1..Len(calls) :
                   (i < j /\ GroupOfCall(calls[i]) > 0)
                       => GroupOfCall(calls[i]) < GroupOfCall(calls[j])
            /\ GroupsRun >= 1 => InCalls("validate_metadata_fields")
            /\ GroupsRun >= 2 =>
                   /\ Has(result, NameMissing) <=> "name" \notin DOMAIN m
                   /\ InCalls("validate_name") <=> "name" \in DOMAIN m
            /\ GroupsRun >= 3 =>
                   /\ Has(result, DescMissing) <=> "description" \notin DOMAIN m
                   /\ InCalls("validate_description") <=> "description" \in DOMAIN m
            /\ GroupsRun >= 4 =>
                   (InCalls("validate_compatibility") <=> "compatibility" \in DOMAIN m)

C16_Witness ==
    /\ pc = "DONE"
    /\ parsed.ok
    /\ Len(result.errors) = 4
    /\ result.errors[1].message = Unexpected
    /\ result.errors[2].message = NameCase
    /\ result.errors[3].message = DescMissing
    /\ result.errors[4].message = CompatLength

(***************************************************************************)
(* A ValidationResult on its own: construction, then the two writes the    *)
(* code makes to one, add_error and the skill_name assignment, in any      *)
(* order and number.                                                       *)
(***************************************************************************)
\* the most operations applied to one result
MaxOps == 4

\* errors as the validators build them: with and without a line number
SomeErrors ==
    {ValidationError(NameMissing, 1, <<>>, 0, TRUE),
     ValidationError(DescLength, 3, <<>>, MAX_DESCRIPTION_LENGTH + 1, TRUE),
     ValidationError(CompatNotString, NoLine, <<>>, 0, TRUE)}

InitAdd ==
    /\ pc = "constructed"
    /\ input = None
    /\ parsed = NotParsed
    /\ result = ValidationResult
    /\ calls = <<>>

AddError ==
    /\ Len(calls) < MaxOps
    /\ \E e \in SomeErrors :
           /\ input' = e
           /\ result' = add_error(result, e)
    /\ pc' = "add_error"
    /\ calls' = Append(calls, "add_error")
    /\ UNCHANGED parsed

SetSkillName ==
    /\ Len(calls) < MaxOps
    /\ \E name \in {Str(GoodName), ListVal} :
           /\ input' = name
           /\ result' = [result EXCEPT !.skill_name = name]
    /\ pc' = "skill_name"
    /\ calls' = Append(calls, "skill_name")
    /\ UNCHANGED parsed

NextAdd ==
    \/ AddError
    \/ SetSkillName

SpecAdd == InitAdd /\ [][NextAdd]_vars

\* C17: a result starts valid with no errors; no operation turns is_valid
\* from false back to true or changes or moves a recorded error; and every
\* add_error leaves is_valid false and the errors as they were with exactly
\* the new error added at the end.
C17_MonotonicAppendOnly ==
    /\ result.is_valid /\ result.errors = <<>>
    /\ [][/\ ~result.is_valid => ~result'.is_valid
          /\ Len(result'.errors) >= Len(result.errors)
          /\ SubSeq(result'.errors, 1, Len(result.errors)) = result.errors
          /\ pc' = "add_error" =>
                 /\ ~result'.is_valid
                 /\ result'.errors = Append(result.errors, input')]_vars

C17_Witness ==
    /\ pc = "skill_name"
    /\ ~result.is_valid
    /\ Len(result.errors) = 3
    /\ result.errors[1].message = CompatNotString
    /\ result.errors[2].message = NameMissing
    /\ result.errors[3].message = CompatNotString

(***************************************************************************)
(* main's loop over skill_dirs, with one validate_skill call per directory *)
(* and the calls free to interleave.  Each call owns a ValidationResult    *)
(* object whose errors field refers to a list on a heap, so that two       *)
(* results could in principle refer to the same list.                      *)
(***************************************************************************)
\* the most directories in one batch
MaxBatch == 2

\* the directories of a batch: a missing path, a directory without SKILL.md,
\* an unparseable SKILL.md, a valid skill, and one that fails in every group
BatchWorlds ==
    {World("missing", GoodName, "SKILL.md" :> WellFormed(BaseValues), "ok", BaseValues),
     World("dir", GoodName, <<>>, "ok", BaseValues),
     World("dir", GoodName, "SKILL.md" :> <<>>, "ok", BaseValues),
     World("dir", GoodName, "SKILL.md" :> WellFormed(BaseValues), "ok", BaseValues),
     LET v == Values(Str(<<"A", "-", "1">>), Absent,
                     Str(Pad(<<>>, "a", MAX_COMPATIBILITY_LENGTH + 1)), {"author"})
     IN  World("dir", <<"A", "-", "1">>, "SKILL.md" :> WellFormed(v), "ok", v)}

\* lines 203-230 as one function: the outcome of the gates on result r
gate_stage(world, r) ==
    LET stop(message, suggestion) ==
            [result |-> add_error(r, ValidationError(message, NoLine, <<>>, 0,
                                                     suggestion)),
             parsed |-> NotParsed, pc |-> "DONE"]
    IN  IF ~PathExists(world.path) THEN stop("Path does not exist", FALSE)
        ELSE IF ~PathIsDir(world.path) THEN stop("Not a directory", FALSE)
        ELSE IF find_skill_md(world.files) = "None"
        THEN stop("Missing required file: SKILL.md", TRUE)
        ELSE IF world.read # "ok" THEN stop("Error reading SKILL.md", FALSE)
        ELSE LET p == parse_frontmatter(world.files[find_skill_md(world.files)],
                                        world.values)
             IN  IF ~p.ok THEN stop(p.error, FALSE)
                 ELSE [result |-> r, parsed |-> p, pc |-> "FIELD_VALIDATION"]

\* validate_skill run from start to return on one directory, nothing else running
ValidateSkillAlone(world) ==
    LET g == gate_stage(world, ValidationResult)
        m == g.parsed.metadata
    IN  IF g.pc = "DONE" THEN g.result
        ELSE compatibility_field(m,
                 description_field(m,
                     name_field(m, PathVal(world.dir_name),
                         validate_metadata_fields(m, g.result))))

\* every result given the one list
SharedList(lists) == 1

\* __post_init__: self.errors = [], a list no other object refers to
NewList(lists) == Len(lists) + 1

\* the any() of the flags in place of all()
validation_status_any(results) ==
    IF \E i \in 1..Len(results) : results[i].is_valid THEN "passed" ELSE "failed"

\* "passed" if all(r.is_valid for r in results) else "failed"
validation_status(results) ==
    IF \A i \in 1..Len(results) : results[i].is_valid THEN "passed" ELSE "failed"

\* the result object of call t with its errors list read through the reference
Deref(t) ==
    [result.objects[t] EXCEPT !.errors = result.lists[result.objects[t].errors]]

\* the heap after call t's validators have turned its result into r:
\* the fields are written on the object, the errors on the list it refers to
Store(t, r) ==
    [result EXCEPT !.objects[t] = [r EXCEPT !.errors = result.objects[t].errors],
                   !.lists[result.objects[t].errors] = r.errors]

InitBatch ==
    \E n \in 1..MaxBatch : \E skill_dirs \in [1..n -> BatchWorlds] :
        /\ input = skill_dirs
        /\ pc = [task |-> [t \in 1..n |-> "START"], main |-> "running"]
        /\ parsed = [t \in 1..n |-> NotParsed]
        /\ result = [objects |-> [t \in 1..n |-> [ValidationResult EXCEPT !.errors = 0]],
                     lists |-> <<>>, validation_status |-> ""]
        /\ calls = <<>>

\* result = ValidationResult(skill_path=str(skill_dir))
Construct ==
    \E t \in DOMAIN input :
        /\ pc.task[t] = "START"
        /\ LET id == NewList(result.lists)
           IN  result' = [result EXCEPT
                   !.objects[t] = [ValidationResult EXCEPT !.errors = id],
                   !.lists = IF id > Len(@) THEN Append(@, <<>>) ELSE @]
        /\ pc' = [pc EXCEPT !.task[t] = "GATES"]
        /\ UNCHANGED <<input, parsed, calls>>

Gates ==
    \E t \in DOMAIN input :
        /\ pc.task[t] = "GATES"
        /\ LET g == gate_stage(input[t], Deref(t))
           IN  /\ result' = Store(t, g.result)
               /\ parsed' = [parsed EXCEPT ![t] = g.parsed]
               /\ pc' = [pc EXCEPT !.task[t] = g.pc]
        /\ UNCHANGED <<input, calls>>

\* the next of the four field groups of call t
FieldGroup ==
    \E t \in DOMAIN input :
        /\ pc.task[t] \in {"FIELD_VALIDATION", "NAME_FIELD", "DESCRIPTION_FIELD",
                           "COMPATIBILITY_FIELD"}
        /\ LET m == parsed[t].metadata
               at == pc.task[t]
           IN  /\ result' = Store(t,
                     CASE at = "FIELD_VALIDATION" ->
                              validate_metadata_fields(m, Deref(t))
                       [] at = "NAME_FIELD" ->
                              name_field(m, PathVal(input[t].dir_name), Deref(t))
                       [] at = "DESCRIPTION_FIELD" -> description_field(m, Deref(t))
                       [] OTHER -> compatibility_field(m, Deref(t)))
               /\ pc' = [pc EXCEPT !.task[t] =
                     CASE at = "FIELD_VALIDATION" -> "NAME_FIELD"
                       [] at = "NAME_FIELD" -> "DESCRIPTION_FIELD"
                       [] at = "DESCRIPTION_FIELD" -> "COMPATIBILITY_FIELD"
                       [] OTHER -> "DONE"]
        /\ UNCHANGED <<input, parsed, calls>>

\* results.append(result): main keeps a reference to the returned object
Collect ==
    \E t \in DOMAIN input :
        /\ pc.task[t] = "DONE"
        /\ calls' = Append(calls, t)
        /\ pc' = [pc EXCEPT !.task[t] = "COLLECTED"]
        /\ UNCHANGED <<input, parsed, result>>

\* main after the loop: the overall status over the collected results
Status ==
    /\ pc.main = "running"
    /\ \A t \in DOMAIN input : pc.task[t] = "COLLECTED"
    /\ result' = [result EXCEPT !.validation_status =
                      validation_status([i \in 1..Len(calls) |-> Deref(calls[i])])]
    /\ pc' = [pc EXCEPT !.main = "reported"]
    /\ UNCHANGED <<input, parsed, calls>>

NextBatch ==
    \/ Construct
    \/ Gates
    \/ FieldGroup
    \/ Collect
    \/ Status

SpecBatch == InitBatch /\ [][NextBatch]_vars

\* s is an initial part of q
IsPrefix(s, q) == Len(s) <= Len(q) /\ s = SubSeq(q, 1, Len(s))

\* C13: in a batch validated in any interleaving, no two results refer to
\* the same errors list; the errors a running validation has recorded are an
\* initial part of those the directory gives when validated alone; a
\* returned result equals, field by field, the result of validating its
\* directory alone, and stays so while the other validations run; and two
\* returned results for the same directory are equal.
C13_ResultDependsOnOwnDirectoryOnly ==
    \A t \in DOMAIN input :
        pc.task[t] # "START" =>
            /\ \A u \in DOMAIN input :
                   (u # t /\ pc.task[u] # "START")
                       => result.objects[u].errors # result.objects[t].errors
            /\ IsPrefix(Deref(t).errors, ValidateSkillAlone(input[t]).errors)
            /\ pc.task[t] \in {"DONE", "COLLECTED"} =>
                   /\ Deref(t) = ValidateSkillAlone(input[t])
                   /\ \A u \in DOMAIN input :
                          (pc.task[u] \in {"DONE", "COLLECTED"} /\ input[u] = input[t])
                              => Deref(u) = Deref(t)

C13_Witness ==
    /\ Len(input) = 2
    /\ input[1] = input[2]
    /\ pc.task[1] = "COLLECTED"
    /\ pc.task[2] = "DESCRIPTION_FIELD"
    /\ Len(Deref(1).errors) = 4
    /\ Len(Deref(2).errors) = 2

\* C14: once main has computed the status of a batch, it is "passed" exactly
\* when every collected result is valid and "failed" otherwise, in whatever
\* order the results were collected.
C14_PassedIffAllValid ==
    pc.main = "reported" =>
        /\ Len(calls) = Len(input) /\ Len(calls) > 0
        /\ result.validation_status \in {"passed", "failed"}
        /\ result.validation_status = "passed"
               <=> \A i \in 1..Len(calls) : Deref(calls[i]).is_valid
        /\ result.validation_status = "failed"
               <=> \E t \in DOMAIN input : ~ValidateSkillAlone(input[t]).is_valid

C14_Witness ==
    /\ pc.main = "reported"
    /\ Len(calls) = 2
    /\ Deref(calls[1]).is_valid
    /\ ~Deref(calls[2]).is_valid
    /\ result.validation_status = "failed"

====
